---- MODULE Spec2Model ----
(***************************************************************************)
(* Model of package is (github.com/billyzaelani/is): the assertion engine  *)
(* of is.go and the source annotator of util.go, run against the mock      *)
(* reporter of the package's tests.                                        *)
(*                                                                         *)
(* Text is modelled as TLA+ strings, byte for byte.  The Go parser is      *)
(* modelled by its result: a source file is the sequence of its lines,     *)
(* each line carrying the call expressions that start on it (in the order  *)
(* ast.Inspect visits them) and the comment groups that start on it.  A    *)
(* call expression keeps its tokens with the blanks the author wrote in    *)
(* front of them, so that the text as written and the text go/printer      *)
(* renders are two different things.                                       *)
(***************************************************************************)
EXTENDS Integers, Sequences, FiniteSets, TLC

VARIABLES reporters, root, child, heap, last, unit, par

vars == <<reporters, root, child, heap, last, unit, par>>

(***************************************************************************)
(* Bounds                                                                  *)
(***************************************************************************)
\* number of package-level New calls (each allocates two fresh maps)
MaxLoads == 1

(***************************************************************************)
(* strings                                                                 *)
(***************************************************************************)
RECURSIVE Rep(_, _)
Rep(s, n) == IF n <= 0 THEN "" ELSE s \o Rep(s, n - 1)

HasPrefix(s, p) == Len(s) >= Len(p) /\ SubSeq(s, 1, Len(p)) = p

HasSuffix(s, p) == Len(s) >= Len(p) /\ SubSeq(s, Len(s) - Len(p) + 1, Len(s)) = p

Contains(s, sub) ==
    \E i \in 1..(Len(s) - Len(sub) + 1) : SubSeq(s, i, i + Len(sub) - 1) = sub

RECURSIVE ReplaceAll(_, _, _)
ReplaceAll(s, old, new) ==
    IF Len(s) < Len(old) THEN s
    ELSE IF HasPrefix(s, old)
         THEN new \o ReplaceAll(SubSeq(s, Len(old) + 1, Len(s)), old, new)
         ELSE SubSeq(s, 1, 1) \o ReplaceAll(SubSeq(s, 2, Len(s)), old, new)

IsSpace(c) == c \in {" ", "\t", "\n", "\r"}

RECURSIVE TrimLeft(_)
TrimLeft(s) ==
    IF Len(s) > 0 /\ IsSpace(SubSeq(s, 1, 1)) THEN TrimLeft(SubSeq(s, 2, Len(s))) ELSE s

RECURSIVE TrimRight(_)
TrimRight(s) ==
    IF Len(s) > 0 /\ IsSpace(SubSeq(s, Len(s), Len(s)))
    THEN TrimRight(SubSeq(s, 1, Len(s) - 1)) ELSE s

TrimSpace(s) == TrimLeft(TrimRight(s))

RECURSIVE Join(_, _)
Join(parts, sep) ==
    IF Len(parts) = 0 THEN ""
    ELSE IF Len(parts) = 1 THEN parts[1]
    ELSE parts[1] \o sep \o Join(Tail(parts), sep)

\* s[lo:hi] of Go; the slice expression panics unless 0 <= lo <= hi <= len(s)
SliceOk(s, lo, hi) == 0 <= lo /\ lo <= hi /\ hi <= Len(s)
Slice(s, lo, hi) == SubSeq(s, lo + 1, hi)

(***************************************************************************)
(* Go values (interface{}): dynamic type, %v rendering, and the content    *)
(* reflect.DeepEqual compares.  NilV is the nil interface value.           *)
(***************************************************************************)
Val(typ, rep, key) == [typ |-> typ, rep |-> rep, key |-> key]

NilV == Val("<nil>", "<nil>", "nil")
Int1 == Val("int", "1", "1")
Int2 == Val("int", "2", "2")
Int32_1 == Val("int32", "1", "1")
StrSingle == Val("string", "single", "single")
StrOther == Val("string", "other", "other")
\* []string{} and []string(nil) print alike and are not deep-equal
EmptySlice == Val("[]string", "[]", "empty")
NilSlice == Val("[]string", "[]", "nilslice")

EqualValues == {NilV, Int1, Int2, Int32_1, EmptySlice, NilSlice}
PanicValues == {StrSingle, StrOther}

DeepEqual(a, b) == a.typ = b.typ /\ a.key = b.key

TypeOf(v) == v.typ

FmtV(v) == v.rep

FmtT(v) == v.typ

(***************************************************************************)
(* Go errors: "nil" is the nil error; the others are error values with a   *)
(* message, a dynamic type and the error they wrap.                        *)
(***************************************************************************)
NilErr == "nil"
Errors == {"err1", "err2", "errWrap", "errQuery", "errWrapQ"}

ErrorText(e) ==
    CASE e = "err1" -> "error 1"
      [] e = "err2" -> "error 2"
      [] e = "errWrap" -> "wrapped: error 1"
      [] e = "errQuery" -> "query: SELECT"
      [] e = "errWrapQ" -> "wrapped: query: SELECT"

ErrType(e) ==
    CASE e = "err1" -> "*errors.errorString"
      [] e = "err2" -> "*errors.errorString"
      [] e = "errWrap" -> "*fmt.wrapError"
      [] e = "errQuery" -> "*is_test.QueryError"
      [] e = "errWrapQ" -> "*fmt.wrapError"

Unwrap(e) ==
    CASE e = "errWrap" -> "err1"
      [] e = "errWrapQ" -> "errQuery"
      [] OTHER -> NilErr

\* mutant: identity instead of errors.Is
ErrorsIsIdentity(err, target) == err = target

\* errors.Is: err or an error of its chain equals target
RECURSIVE ErrorsIs(_, _)
ErrorsIs(err, target) ==
    IF target = NilErr THEN err = target
    ELSE IF err = target THEN TRUE
    ELSE IF Unwrap(err) = NilErr THEN FALSE
    ELSE ErrorsIs(Unwrap(err), target)

\* targets of errors.As: NilTarget is the nil interface; the others are
\* non-nil pointers to a variable of type elem
NilTarget == [elem |-> ""]
QueryTarget == [elem |-> "*is_test.QueryError"]
IfaceTarget == [elem |-> "error"]
Targets == {NilTarget, QueryTarget, IfaceTarget}

AssignableTo(e, elem) == elem = "error" \/ ErrType(e) = elem

\* mutant: a type assertion on err alone
ErrorsAsNoChain(err, target) ==
    IF err # NilErr /\ AssignableTo(err, target.elem) THEN err ELSE NilErr

\* errors.As on a valid target: the first error of the chain assignable to
\* *target, or NilErr when there is none
RECURSIVE ErrorsAs(_, _)
ErrorsAs(err, target) ==
    IF err = NilErr THEN NilErr
    ELSE IF AssignableTo(err, target.elem) THEN err
    ELSE ErrorsAs(Unwrap(err), target)

\* %T of a target
FmtTarget(target) == IF target = NilTarget THEN "<nil>" ELSE "*" \o target.elem

(***************************************************************************)
(* Source files as the parser sees them                                    *)
(***************************************************************************)
\* a token and the number of blanks written in front of it
Tok(g, s) == [g |-> g, s |-> s]

\* one source line of a call's argument list: the tokens on it and the
\* indentation depth go/printer gives the line when it renders the call
ArgLine(indent, toks) == [indent |-> indent, toks |-> toks]

\* a call expression: the function text, the blanks written between it and
\* the opening parenthesis, and the argument list line by line
Call(fun, sep, args) == [fun |-> fun, sep |-> sep, args |-> args]

\* a source line: the assertion statement on it, the call expressions that
\* start on it (outermost first) and the comment groups that start on it
Line(stmt, calls, comments) == [stmt |-> stmt, calls |-> calls, comments |-> comments]

Blank == Line("none", <<>>, <<>>)
Cont(comments) == Line("none", <<>>, comments)

BinOps == {"==", "&&", "||"}

\* blanks go/printer writes between two tokens of one line
CanonGap(prev, cur) ==
    IF prev = "" \/ prev = "(" \/ cur = ")" \/ cur = "," THEN 0
    ELSE IF prev = "," \/ prev \in BinOps \/ cur \in BinOps THEN 1
    ELSE 0

RECURSIVE PrintToks(_, _)
PrintToks(toks, prev) ==
    IF Len(toks) = 0 THEN ""
    ELSE Rep(" ", CanonGap(prev, toks[1].s)) \o toks[1].s
         \o PrintToks(Tail(toks), toks[1].s)

RECURSIVE WriteToks(_)
WriteToks(toks) ==
    IF Len(toks) = 0 THEN ""
    ELSE Rep(" ", toks[1].g) \o toks[1].s \o WriteToks(Tail(toks))

RECURSIVE PrintArgs(_, _)
PrintArgs(args, first) ==
    IF Len(args) = 0 THEN ""
    ELSE (IF first THEN "" ELSE "\n" \o Rep("\t", args[1].indent))
         \o PrintToks(args[1].toks, "")
         \o PrintArgs(Tail(args), FALSE)

\* printer.Fprint of a call expression node
Fprint(call) == call.fun \o "(" \o PrintArgs(call.args, TRUE) \o ")"

\* the text between the parentheses of a one-line call, as the author wrote it
Written(call) == WriteToks(call.args[1].toks)

\* ret.Lparen - ret.Pos(): offsets of the source text
LparenOffset(call) == Len(call.fun) + call.sep

(***************************************************************************)
(* ast.CommentGroup.Text for comments that do not span lines               *)
(***************************************************************************)
CommentBody(raw) ==
    IF SubSeq(raw, 1, 2) = "//"
    THEN LET c == SubSeq(raw, 3, Len(raw))
         IN  IF HasPrefix(c, " ") THEN SubSeq(c, 2, Len(c)) ELSE c
    ELSE SubSeq(raw, 3, Len(raw) - 2)

RECURSIVE TextLines(_)
TextLines(group) ==
    IF Len(group) = 0 THEN <<>>
    ELSE <<TrimRight(CommentBody(group[1]))>> \o TextLines(Tail(group))

RECURSIVE DropLeadingEmpty(_)
DropLeadingEmpty(lines) ==
    IF Len(lines) > 0 /\ lines[1] = "" THEN DropLeadingEmpty(Tail(lines)) ELSE lines

\* interior runs of empty lines shrink to one, trailing ones disappear
RECURSIVE SqueezeEmpty(_)
SqueezeEmpty(lines) ==
    IF Len(lines) = 0 THEN <<>>
    ELSE IF lines[1] = "" /\ (Len(lines) = 1 \/ lines[2] = "")
         THEN SqueezeEmpty(Tail(lines))
         ELSE <<lines[1]>> \o SqueezeEmpty(Tail(lines))

GroupText(group) ==
    LET lines == SqueezeEmpty(DropLeadingEmpty(TextLines(group)))
    IN  IF Len(lines) = 0 THEN "" ELSE Join(lines, "\n") \o "\n"

(***************************************************************************)
(* The test sources on disk                                                *)
(***************************************************************************)
x_1eq2 == <<Tok(0, "1"), Tok(1, "=="), Tok(1, "2")>>
x_tight == <<Tok(0, "1"), Tok(0, "=="), Tok(0, "2")>>
x_paren == <<Tok(0, "("), Tok(0, "1"), Tok(1, "=="), Tok(1, "2"), Tok(0, ")")>>
x_aeqb == <<Tok(0, "a"), Tok(1, "=="), Tok(1, "b")>>
x_ab == <<Tok(0, "a"), Tok(0, ","), Tok(1, "b")>>
x_err == <<Tok(0, "err")>>
x_f == <<Tok(0, "panicFunc"), Tok(0, ","), Tok(1, "want")>>

EqualCall == Call("is.Equal", 0, <<ArgLine(0, x_ab)>>)
NoErrorCall == Call("is.NoError", 0, <<ArgLine(0, x_err)>>)
ErrorCall == Call("is.Error", 0, <<ArgLine(0, x_err)>>)
ErrorAsCall == Call("is.ErrorAs", 0, <<ArgLine(0, <<Tok(0, "err"), Tok(0, ","), Tok(1, "&e")>>)>>)
PanicCall == Call("is.Panic", 0, <<ArgLine(0, x_f)>>)
TrueCall(sep, toks) == Call("is.True", sep, <<ArgLine(0, toks)>>)

\* is.True((1 == 2) &&
\*         false)
TwoLineCall ==
    Call("is.True", 0, <<ArgLine(0, x_paren \o <<Tok(1, "&&")>>),
                         ArgLine(1, <<Tok(0, "false")>>)>>)

\* is.True((1 == 2) &&
\*         false ||
\*         false)
ThreeLineCall ==
    Call("is.True", 0, <<ArgLine(0, x_paren \o <<Tok(1, "&&")>>),
                         ArgLine(1, <<Tok(0, "false"), Tok(1, "||")>>),
                         ArgLine(1, <<Tok(0, "false")>>)>>)

\* is.True(check([]string{
\*         "a",
\* }))
LiteralCall ==
    Call("is.True", 0, <<ArgLine(0, <<Tok(0, "check"), Tok(0, "("), Tok(0, "[]string{")>>),
                         ArgLine(1, <<Tok(0, "\"a\",")>>),
                         ArgLine(0, <<Tok(0, "}"), Tok(0, ")")>>)>>)

\* is.True(isTrue(x)) and the call nested in it
OuterCall == TrueCall(0, <<Tok(0, "isTrue"), Tok(0, "("), Tok(0, "x"), Tok(0, ")")>>)
InnerCall == Call("isTrue", 0, <<ArgLine(0, <<Tok(0, "x")>>)>>)

ATest ==
    << Line("Equal", <<EqualCall>>, <<>>),                                      \*  1
       Line("Equal", <<EqualCall>>, << <<"/* foo is not bar */">> >>),          \*  2
       Line("Equal", <<EqualCall>>,
            << <<"/* lead */">>, <<"// expect to be the same">> >>),            \*  3
       Line("NoError", <<NoErrorCall>>, <<>>),                                  \*  4
       Line("NoError", <<NoErrorCall>>, << <<"/* shouldn't be error*/">> >>),   \*  5
       Line("Error", <<ErrorCall>>, <<>>),                                      \*  6
       Line("Error", <<ErrorCall>>, << <<"/* shouldn't be nil*/">> >>),         \*  7
       Line("ErrorAs", <<ErrorAsCall>>, <<>>),                                  \*  8
       Line("ErrorAs", <<ErrorAsCall>>, << <<"// it's something else">> >>),    \*  9
       Line("True", <<TrueCall(0, x_1eq2)>>, << <<"/* false*/">> >>),           \* 10
       Line("True", <<TrueCall(0, x_paren)>>, << <<"/* comment */">> >>),       \* 11
       Line("True", <<TrueCall(0, x_aeqb)>>, <<>>),                             \* 12
       Line("True", <<TrueCall(0, x_tight)>>, <<>>),                            \* 13
       Line("True", <<TrueCall(1, x_1eq2)>>, <<>>),                             \* 14
       Line("True", <<TwoLineCall>>, <<>>),                                     \* 15
       Blank,                                                                   \* 16
       Line("True", <<ThreeLineCall>>, << <<"// comment">> >>),                 \* 17
       Blank,                                                                   \* 18
       Blank,                                                                   \* 19
       Line("True", <<ThreeLineCall>>, <<>>),                                   \* 20
       Cont(<< <<"// cannot be printed">> >>),                                  \* 21
       Blank,                                                                   \* 22
       Line("True", <<LiteralCall>>, <<>>),                                     \* 23
       Blank,                                                                   \* 24
       Blank,                                                                   \* 25
       Line("True", <<OuterCall, InnerCall>>, <<>>),                            \* 26
       Line("func", <<>>, << <<"// boom">> >>),                                 \* 27
       Line("Panic", <<PanicCall>>, <<>>),                                      \* 28
       Line("Panic", <<PanicCall>>, << <<"// with comment">> >>) >>             \* 29

BTest ==
    << Blank, Blank, Blank, Blank,
       Line("NoError", <<NoErrorCall>>, << <<"// from b">> >>),                 \*  5
       Blank, Blank, Blank, Blank,
       Line("True", <<TrueCall(0, <<Tok(0, "false")>>)>>, <<>>) >>              \* 10

UtilGo ==
    << Line("NoError", <<NoErrorCall>>, << <<"// not a test file">> >>),        \*  1
       Line("True", <<TrueCall(0, x_1eq2)>>, <<>>) >>                           \*  2

CTest ==
    << Line("NoError", <<NoErrorCall>>, << <<"// in sub">> >>) >>               \*  1

\* directory entries: the parent directory, the base name, whether the entry
\* is a directory; for files, whether parser.ParseFile accepts them and the
\* lines it finds
Entry(dir, name, isDir, ok, lines) ==
    [dir |-> dir, name |-> name, isDir |-> isDir, ok |-> ok, lines |-> lines]

FS ==
    [p \in {"/p", "/p/a_test.go", "/p/b_test.go", "/p/util.go", "/p/sub",
            "/p/sub/c_test.go", "/q", "/q/a_test.go", "/q/q_test.go"} |->
        CASE p = "/p" -> Entry("/", "p", TRUE, FALSE, <<>>)
          [] p = "/p/a_test.go" -> Entry("/p", "a_test.go", FALSE, TRUE, ATest)
          [] p = "/p/b_test.go" -> Entry("/p", "b_test.go", FALSE, TRUE, BTest)
          [] p = "/p/util.go" -> Entry("/p", "util.go", FALSE, TRUE, UtilGo)
          [] p = "/p/sub" -> Entry("/p", "sub", TRUE, FALSE, <<>>)
          [] p = "/p/sub/c_test.go" -> Entry("/p/sub", "c_test.go", FALSE, TRUE, CTest)
          [] p = "/q" -> Entry("/", "q", TRUE, FALSE, <<>>)
          [] p = "/q/a_test.go" -> Entry("/q", "a_test.go", FALSE, TRUE, CTest)
          [] p = "/q/q_test.go" -> Entry("/q", "q_test.go", FALSE, FALSE, <<>>)]

Paths == DOMAIN FS
SourceFiles == {p \in Paths : ~FS[p].isDir}

\* the frames of the Go runtime lie in a file outside every package directory
RuntimeFile == "/go/src/runtime/panic.go"
LibFile == "/p/is.go"
TestingFile == "/go/src/testing/testing.go"

(***************************************************************************)
(* util.go: building the tables                                            *)
(***************************************************************************)
\* a Go map[int]string: reading a missing key yields ""
MapGet(m, k) == IF k \in DOMAIN m THEN m[k] ELSE ""

\* mutant: the line alone decides, whatever the file that holds it
MapGetLineOnly(m, file, line) ==
    LET fs == {g \in DOMAIN m : line \in DOMAIN m[g]}
    IN  IF fs = {} THEN "" ELSE m[CHOOSE g \in fs : TRUE][line]

\* a Go map[string]map[int]string: a missing file yields the nil map
MapGet2(m, file, line) == IF file \in DOMAIN m THEN MapGet(m[file], line) ELSE ""

Last(seq) == seq[Len(seq)]

\* loadComment(path): every comment group is stored under its line, a later
\* group of the same line replacing an earlier one
loadComment(path) ==
    LET lines == FS[path].lines
    IN  [l \in {i \in 1..Len(lines) : Len(lines[i].comments) > 0} |->
            "// " \o TrimSpace(GroupText(Last(lines[l].comments)))]

\* the argument text the walk stores for one call expression
ArgsOf(call) ==
    LET args == ReplaceAll(Fprint(call), "\n\t", " ")
    IN  Slice(args, LparenOffset(call) + 1, Len(args) - 1)

ArgsOk(call) ==
    LET args == ReplaceAll(Fprint(call), "\n\t", " ")
    IN  SliceOk(args, LparenOffset(call) + 1, Len(args) - 1)

\* the calls of a line the walk records: those whose printed text contains
\* funcName, in the order ast.Inspect visits them
Recorded(line, funcName) == SelectSeq(line.calls, LAMBDA c : Contains(Fprint(c), funcName))

\* loadArgument(path, funcName)
loadArgument(path, funcName) ==
    LET lines == FS[path].lines
    IN  [l \in {i \in 1..Len(lines) : Len(Recorded(lines[i], funcName)) > 0} |->
            ArgsOf(Last(Recorded(lines[l], funcName)))]

\* mutant: a file the parser rejects is taken as a file without annotations
LoadPanicsNever(path, funcName) == FALSE

\* the walk panics on a file the parser rejects and on a call whose slice
\* bounds are out of range
LoadPanics(path, funcName) ==
    \/ ~FS[path].ok
    \/ \E i \in 1..Len(FS[path].lines) :
          \E j \in 1..Len(FS[path].lines[i].calls) :
             LET c == FS[path].lines[i].calls[j]
             IN  Contains(Fprint(c), funcName) /\ ~ArgsOk(c)

Dir(file) == FS[file].dir

\* walkTest for one entry of the walk
walkTest(path, dirRoot) ==
    IF FS[path].isDir /\ path # dirRoot THEN "SkipDir"
    ELSE IF HasSuffix(FS[path].name, "_test.go") THEN "load"
    ELSE "nil"

\* mutant: the walk goes below every directory
WalkedDeep(dirRoot) == {p \in Paths : p = dirRoot \/ HasPrefix(p, dirRoot \o "/")}

\* the entries filepath.Walk hands to walkTest: the root and what lies
\* directly in it (nothing below a directory that answered SkipDir)
Walked(dirRoot) == {p \in Paths : p = dirRoot \/ FS[p].dir = dirRoot}

Loaded(dirRoot) == {p \in Walked(dirRoot) : walkTest(p, dirRoot) = "load"}

(***************************************************************************)
(* The reporter: mockT of the tests, with the calls it receives            *)
(***************************************************************************)
Reporters == {"m1", "m2"}
NilT == "nil"

ZeroMock == [state |-> "pass", msg |-> "", helperCount |-> 0, calls |-> <<>>]

Fail(m) == [m EXCEPT !.state = "fail", !.calls = Append(@, "Fail")]

FailNow(m) == [m EXCEPT !.state = "failNow", !.calls = Append(@, "FailNow")]

\* mutant: a message is added to the messages logged before
LogAppends(m, text) == [m EXCEPT !.msg = @ \o text, !.calls = Append(@, "Log")]

Log(m, text) == [m EXCEPT !.msg = text, !.calls = Append(@, "Log")]

Helper(m) == [m EXCEPT !.helperCount = @ + 1, !.calls = Append(@, "Helper")]

\* mutant: the fail function handed to logf ignored
CallFailAlwaysFail(m, failFunc) == Fail(m)

CallFail(m, failFunc) == IF failFunc = "FailNow" THEN FailNow(m) ELSE Fail(m)

(***************************************************************************)
(* Call stacks and runtime.Caller                                          *)
(***************************************************************************)
Frame(fn, file, line) == [fn |-> fn, file |-> file, line |-> line]

Lib(fn) == Frame(fn, LibFile, 0)

\* mutant: the frames counted from one instead of zero
CallerOffByOne(stk, skip) ==
    IF skip >= 1 /\ skip <= Len(stk) THEN stk[skip] ELSE Frame("", "", 0)

\* runtime.Caller(skip) seen from the function whose frame is stk[1]
Caller(stk, skip) ==
    IF skip + 1 <= Len(stk) THEN stk[skip + 1] ELSE Frame("", "", 0)

\* the frames the runtime puts between a deferred call and the function
\* that panicked; their number depends on the Go release
RuntimeFrames(n) == [i \in 1..n |-> Frame("runtime.gopanic", RuntimeFile, 0)]

(***************************************************************************)
(* The engine                                                              *)
(***************************************************************************)
NoEngine == [t |-> "none", comments |-> 0, arguments |-> 0]

NilDeref == "runtime error: invalid memory address or nil pointer dereference"

\* what a method leaves behind: the reporter and the value it panicked with
Done(m) == [m |-> m, panic |-> ""]
Panicked(m, v) == [m |-> m, panic |-> v]

\* (is *Is) loadComment(skip)
IsLoadComment(e, skip, stk) ==
    LET c == Caller(<<Lib("Is.loadComment")>> \o stk, skip)
    IN  MapGet2(heap[e.comments], c.file, c.line)

\* mutant: a file that is no key yields a placeholder for the expression
IsLoadArgumentPlaceholder(e, stk) ==
    LET c == Caller(<<Lib("Is.loadArgument")>> \o stk, 2)
    IN  IF c.file \in DOMAIN heap[e.arguments]
        THEN MapGet2(heap[e.arguments], c.file, c.line)
        ELSE "<unknown>"

\* (is *Is) loadArgument()
IsLoadArgument(e, stk) ==
    LET c == Caller(<<Lib("Is.loadArgument")>> \o stk, 2)
    IN  MapGet2(heap[e.arguments], c.file, c.line)

\* mutant: logf does not mark its own frame as a helper
logfNoHelper(e, m, failFunc, skip, text, stk) ==
    LET here == <<Lib("Is.logf")>> \o stk
        comment == IsLoadComment(e, skip, here)
        msg == IF comment # "" THEN <<text, comment>> ELSE <<text>>
    IN  CallFail(Log(m, Join(msg, " ")), failFunc)

\* mutant: the fail function called before the message is logged
logfFailFirst(e, m, failFunc, skip, text, stk) ==
    LET here == <<Lib("Is.logf")>> \o stk
        m1 == Helper(m)
        comment == IsLoadComment(e, skip, here)
        msg == IF comment # "" THEN <<text, comment>> ELSE <<text>>
    IN  Log(CallFail(m1, failFunc), Join(msg, " "))

\* logf, entered from the function whose frame is stk[1]
logf(e, m, failFunc, skip, text, stk) ==
    LET here == <<Lib("Is.logf")>> \o stk
        m1 == Helper(m)
        comment == IsLoadComment(e, skip, here)
        msg == IF comment # "" THEN <<text, comment>> ELSE <<text>>
    IN  CallFail(Log(m1, Join(msg, " ")), failFunc)

isNil(obj) == obj = NilV

valWithType(v) == IF isNil(v) THEN "<nil>" ELSE FmtT(v) \o "(" \o FmtV(v) \o ")"

\* mutant: the nil test made before the comparison
EqualBranchNilFirst(a, b) ==
    IF isNil(a) \/ isNil(b) THEN "nil"
    ELSE IF DeepEqual(a, b) THEN "equal"
    ELSE IF TypeOf(a) = TypeOf(b) THEN "sameType"
    ELSE "otherType"

\* mutant: the same-type branch lost
EqualBranchAlwaysTyped(a, b) ==
    IF DeepEqual(a, b) THEN "equal"
    ELSE IF isNil(a) \/ isNil(b) THEN "nil"
    ELSE "otherType"

\* the branch Equal takes
EqualBranch(a, b) ==
    IF DeepEqual(a, b) THEN "equal"
    ELSE IF isNil(a) \/ isNil(b) THEN "nil"
    ELSE IF TypeOf(a) = TypeOf(b) THEN "sameType"
    ELSE "otherType"

Equal(e, m, a, b, stk) ==
    IF e.t = NilT THEN Panicked(m, NilDeref)
    ELSE
    LET here == <<Lib("Is.Equal")>> \o stk
        m1 == Helper(m)
        prefix == "is.Equal"
        skip == 3
        branch == EqualBranch(a, b)
    IN  IF branch = "equal" THEN Done(m1)
        ELSE IF branch = "nil"
        THEN Done(logf(e, m1, "Fail", skip,
                       prefix \o ": " \o valWithType(a) \o " != " \o valWithType(b), here))
        ELSE IF branch = "sameType"
        THEN Done(logf(e, m1, "Fail", skip,
                       prefix \o ": " \o FmtV(a) \o " != " \o FmtV(b), here))
        ELSE Done(logf(e, m1, "Fail", skip,
                       prefix \o ": " \o valWithType(a) \o " != " \o valWithType(b), here))

Error(e, m, err, expectedErrors, stk) ==
    IF e.t = NilT THEN Panicked(m, NilDeref)
    ELSE
    LET here == <<Lib("Is.Error")>> \o stk
        m1 == Helper(m)
        prefix == "is.Error"
        skip == 3
        lenErr == Len(expectedErrors)
    IN  IF err = NilErr
        THEN Done(logf(e, m1, "FailNow", skip, prefix \o ": <nil>", here))
        ELSE IF lenErr = 0 THEN Done(m1)
        ELSE IF \E i \in 1..lenErr : ErrorsIs(err, expectedErrors[i]) THEN Done(m1)
        ELSE IF lenErr = 1
        THEN IF expectedErrors[1] = NilErr
             THEN Panicked(m1, NilDeref)
             ELSE Done(logf(e, m1, "FailNow", skip,
                            prefix \o ": " \o ErrorText(err) \o " != "
                                \o ErrorText(expectedErrors[1]), here))
        ELSE Done(logf(e, m1, "FailNow", skip,
                       prefix \o ": " \o ErrorText(err) \o " != one of the expected errors",
                       here))

ErrorAs(e, m, err, target, stk) ==
    IF e.t = NilT THEN Panicked(m, NilDeref)
    ELSE
    LET here == <<Lib("Is.ErrorAs")>> \o stk
        m1 == Helper(m)
        prefix == "is.ErrorAs"
        skip == 3
    IN  IF target = NilTarget THEN Panicked(m1, "errors: target cannot be nil")
        ELSE IF ErrorsAs(err, target) = NilErr
        THEN Done(logf(e, m1, "FailNow", skip,
                       prefix \o ": err != " \o FmtTarget(target), here))
        ELSE Done(m1)

\* mutant: NoError reports through Fail
NoErrorUsesFail(e, m, err, stk) ==
    IF e.t = NilT THEN Panicked(m, NilDeref)
    ELSE
    LET here == <<Lib("Is.NoError")>> \o stk
        m1 == Helper(m)
    IN  IF err # NilErr
        THEN Done(logf(e, m1, "Fail", 3, "is.NoError: " \o ErrorText(err), here))
        ELSE Done(m1)

NoError(e, m, err, stk) ==
    IF e.t = NilT THEN Panicked(m, NilDeref)
    ELSE
    LET here == <<Lib("Is.NoError")>> \o stk
        m1 == Helper(m)
        prefix == "is.NoError"
        skip == 3
    IN  IF err # NilErr
        THEN Done(logf(e, m1, "FailNow", skip, prefix \o ": " \o ErrorText(err), here))
        ELSE Done(m1)

True(e, m, expression, stk) ==
    IF e.t = NilT THEN Panicked(m, NilDeref)
    ELSE
    LET here == <<Lib("Is.True")>> \o stk
        m1 == Helper(m)
        prefix == "is.True"
        skip == 3
    IN  IF expression THEN Done(m1)
        ELSE LET args == IsLoadArgument(e, here)
             IN  Done(logf(e, m1, "Fail", skip, prefix \o ": " \o args, here))

\* the function handed to Panic: it returns, or it panics with val at the
\* source position at
Returns(at) == [kind |-> "return", val |-> NilV, at |-> at]
Panics(val, at) == [kind |-> "panic", val |-> val, at |-> at]

\* an f whose body is a failing is.NoError(err1), at a line of a test file, on
\* the engine of a reporter whose FailNow ends the goroutine (runtime.Goexit)
Exits(at) == [kind |-> "goexit", val |-> NilV, at |-> at]

\* what recover() yields for panic(nil) since Go 1.21
PanicNilError == Val("*runtime.PanicNilError",
                     "panic called with nil argument (obsolete and disabled by GODEBUG)",
                     "PanicNilError")

\* the stack the deferred function of Panic runs on: rt is the number of
\* runtime frames a panic leaves between it and the frames of f
DeferStack(f, rt, stk) ==
    IF f.kind = "panic"
    THEN <<Lib("Is.Panic.func1")>> \o RuntimeFrames(rt)
            \o <<Frame("f", f.at.file, f.at.line), Lib("Is.Panic")>> \o stk
    ELSE IF f.kind = "goexit"
    THEN <<Lib("Is.Panic.func1"), Frame("runtime.Goexit", RuntimeFile, 0),
           Frame("testing.FailNow", TestingFile, 0), Lib("Is.logf"), Lib("Is.NoError"),
           Frame("f", f.at.file, f.at.line), Lib("Is.Panic")>> \o stk
    ELSE <<Lib("Is.Panic.func1"), Lib("Is.Panic")>> \o stk

\* r is the value recover() returns in the deferred function
Panic(e, m, f, r, rt, expectedValues, stk) ==
    IF e.t = NilT THEN Panicked(m, NilDeref)
    ELSE
    LET m1 == Helper(m)
        here == DeferStack(f, rt, stk)
        \* f(): the deferred closure runs when f returns, panics, or ends the
        \* goroutine; in the last case f has reported its own failure before
        mf == IF f.kind = "goexit"
              THEN NoError(e, m1, "err1",
                           <<Frame("f", f.at.file, f.at.line), Lib("Is.Panic")>> \o stk).m
              ELSE m1
        m2 == Helper(mf)
        prefix == "is.Panic"
        skip == 4
        lenVal == Len(expectedValues)
    IN  IF r = NilV
        THEN Done(logf(e, m2, "Fail", skip, prefix \o ": the function is not panic", here))
        ELSE IF lenVal = 0 THEN Done(m2)
        ELSE IF \E i \in 1..lenVal : DeepEqual(r, expectedValues[i]) THEN Done(m2)
        ELSE IF lenVal = 1
        THEN Done(logf(e, m2, "Fail", skip,
                       prefix \o ": " \o FmtV(r) \o " != " \o FmtV(expectedValues[1]), here))
        ELSE Done(logf(e, m2, "Fail", skip,
                       prefix \o ": " \o FmtV(r) \o " != one of the expected panic values",
                       here))

(***************************************************************************)
(* The test program: engines are made, assertions are called on them from  *)
(* the assertion lines of the source files, every assertion on a fresh     *)
(* mock as in the package's tests (m := new(mockT)).                       *)
(***************************************************************************)
Site(file, line) == [file |-> file, line |-> line]
NoSite == Site("", 0)

\* the source positions that hold a statement of the given kind
Sites(stmt) ==
    {Site(p, l) : p \in SourceFiles, l \in 1..Len(ATest)} \cap
    {s \in [file : SourceFiles, line : 1..Len(ATest)] :
        /\ s.line <= Len(FS[s.file].lines)
        /\ FS[s.file].lines[s.line].stmt = stmt}

TestFrame(site) == Frame("Test", site.file, site.line)

\* identifiers whose value is only known when the test runs
Variables == {"a", "b", "x", "check", "isTrue"}

\* the argument of the True call at site can be true when the test runs
CanHold(site) ==
    LET toks == FS[site.file].lines[site.line].calls[1].args[1].toks
    IN  \E i \in 1..Len(toks) : toks[i].s \in Variables

\* files that call the package-level New
NewCallers == {"/p/a_test.go", "/p/sub/c_test.go", "/q/a_test.go"}

RootTs == {NilT, "m1"}
ChildTs == {"m2"}

ErrInputs == {NilErr, "err1", "errWrap"}
NoErrInputs == {NilErr, "err1", "errQuery"}
AsInputs == {NilErr, "err1", "errQuery", "errWrapQ"}
ExpectedErrs == {NilErr, "err1", "err2"}
ErrLists == {<<>>} \cup {<<x>> : x \in ExpectedErrs}
              \cup {<<x, y>> : x \in ExpectedErrs, y \in ExpectedErrs}
ValLists == {<<>>} \cup {<<x>> : x \in PanicValues}
              \cup {<<x, y>> : x \in PanicValues, y \in PanicValues}

\* the functions a Panic call at site may be given
PanicFuncs(site) ==
    {Returns(site)} \cup
    {Panics(v, at) : v \in {StrSingle, NilV}, at \in Sites("func") \cup {site}}

\* the values recover() can yield after f
Recovered(f) ==
    IF f.kind \in {"return", "goexit"} THEN {NilV}
    ELSE IF f.val = NilV THEN {NilV, PanicNilError}
    ELSE {f.val}

MaxRuntimeFrames == 2

NoCall ==
    [op |-> "none", eng |-> "none", t |-> "none", site |-> NoSite,
     a |-> NilV, b |-> NilV, err |-> NilErr, errs |-> <<>>, target |-> NilTarget,
     assigned |-> NilErr, expression |-> FALSE, f |-> Returns(NoSite), r |-> NilV,
     rt |-> 0, vals |-> <<>>, invoked |-> 0, panic |-> "", parses |-> <<>>]

\* no parallel subtests are running
NoPar == [status |-> "none"]

\* no test unit is running
NoUnit == [status |-> "none", aborting |-> FALSE, prog |-> <<>>, ran |-> <<>>, did |-> <<>>]

Engine(which) == IF which = "root" THEN root ELSE child

Engines == {w \in {"root", "child"} : Engine(w) # NoEngine}

Mock(e) == IF e.t = NilT THEN ZeroMock ELSE reporters[e.t]

AssertOps == {"Equal", "NoError", "Error", "ErrorAs", "True", "Panic"}

\* the reporter operations an engine hands on
ForwardOps == {"Fail", "FailNow", "Helper"}

\* a test makes its assertion on mocks nothing was reported to
Fresh == last.op \notin AssertOps /\ \A r \in Reporters : reporters[r] = ZeroMock

\* an assertion returned (or panicked): the reporter and the record of the call
Finish(w, out, call) ==
    /\ reporters' = IF Engine(w).t = NilT THEN reporters
                    ELSE [reporters EXCEPT ![Engine(w).t] = out.m]
    /\ last' = [call EXCEPT !.eng = w, !.t = Engine(w).t, !.panic = out.panic]
    /\ UNCHANGED <<root, child, heap, unit, par>>

Init ==
    /\ reporters = [r \in Reporters |-> ZeroMock]
    /\ root = NoEngine
    /\ child = NoEngine
    /\ heap = <<>>
    /\ last = NoCall
    /\ unit = NoUnit
    /\ par = NoPar

\* the tables load() builds for the directory of the caller
\* a call of parser.ParseFile(fset, path, nil, mode)
ParseFile(path, mode) == [path |-> path, mode |-> mode]

\* the calls of the parser that load makes for a file, in order: one in
\* loadComment(path), one in loadArgument(path, "True")
FileParses(path) ==
    <<ParseFile(path, "ParseComments"), ParseFile(path, "AllErrors")>>

LoadedComments(dirRoot) == [p \in Loaded(dirRoot) |-> loadComment(p)]
LoadedArguments(dirRoot) == [p \in Loaded(dirRoot) |-> loadArgument(p, "True")]

\* mutant: New leaves the tables empty, to be filled on demand
loadNothing ==
    [dirRoot \in {Dir(file) : file \in NewCallers} |->
        [panics |-> \E p \in Loaded(dirRoot) : LoadPanics(p, "True"),
         comments |-> <<>>, arguments |-> <<>>, parses |-> <<>>]]

\* what load() does for each directory a caller of New lies in: it panics, or
\* it leaves the two tables filled
load ==
    [dirRoot \in {Dir(file) : file \in NewCallers} |->
        IF \E p \in Loaded(dirRoot) : LoadPanics(p, "True")
        THEN [panics |-> TRUE, comments |-> <<>>, arguments |-> <<>>, parses |-> <<>>]
        ELSE [panics |-> FALSE, comments |-> LoadedComments(dirRoot),
              arguments |-> LoadedArguments(dirRoot),
              parses |-> [p \in Loaded(dirRoot) |-> FileParses(p)]]]

\* mutant: one pair of tables for the whole process, filled again by every New
NewEngineShared(t, file) ==
    LET dirRoot == Dir(file)
    IN  IF load[dirRoot].panics
        THEN /\ last' = [NoCall EXCEPT !.op = "New", !.t = t, !.site = Site(file, 0),
                                       !.panic = "parse error"]
             /\ UNCHANGED <<reporters, root, child, heap, unit, par>>
        ELSE /\ heap' = <<load[dirRoot].comments, load[dirRoot].arguments>>
             /\ root' = [t |-> t, comments |-> 1, arguments |-> 2]
             /\ last' = [NoCall EXCEPT !.op = "New", !.eng = "root", !.t = t,
                                       !.site = Site(file, 0),
                                       !.parses = load[dirRoot].parses]
             /\ UNCHANGED <<reporters, child, unit, par>>

\* New(t) called from a test file: the engine is made and load() fills its
\* two fresh tables, or panics
NewEngine(t, file) ==
    LET dirRoot == Dir(file)
    IN  IF load[dirRoot].panics
        THEN /\ last' = [NoCall EXCEPT !.op = "New", !.t = t, !.site = Site(file, 0),
                                       !.panic = "parse error"]
             /\ UNCHANGED <<reporters, root, child, heap, unit, par>>
        ELSE /\ heap' = heap \o <<load[dirRoot].comments, load[dirRoot].arguments>>
             /\ root' = [t |-> t, comments |-> Len(heap) + 1, arguments |-> Len(heap) + 2]
             /\ last' = [NoCall EXCEPT !.op = "New", !.eng = "root", !.t = t,
                                       !.site = Site(file, 0),
                                       !.parses = load[dirRoot].parses]
             /\ UNCHANGED <<reporters, child, unit, par>>

\* is := is.New(t) from a test file
New(t, file) ==
    /\ Len(heap) < 2 * MaxLoads
    /\ NewEngine(t, file)

\* mutant: the child keeps the reporter of its parent
IsNewKeepsT(e, t) == [t |-> e.t, comments |-> e.comments, arguments |-> e.arguments]

\* (is *Is) New(t): a new engine on the tables of e
IsNew(e, t) == [t |-> t, comments |-> e.comments, arguments |-> e.arguments]

\* is := is.New(t) on an engine
ChildNew(w, t) ==
    /\ w \in Engines
    /\ child' = IsNew(Engine(w), t)
    /\ child' # child
    /\ last' = [NoCall EXCEPT !.op = "ChildNew", !.eng = w, !.t = t]
    /\ UNCHANGED <<reporters, root, heap, unit, par>>

\* the next test starts: m := new(mockT)
NewMock ==
    /\ last.op \in AssertOps \cup ForwardOps
    /\ reporters' = [r \in Reporters |-> ZeroMock]
    /\ last' = [NoCall EXCEPT !.op = "NewMock"]
    /\ UNCHANGED <<root, child, heap, unit, par>>

DoEqual(w, a, b, site) ==
    /\ w \in Engines /\ Fresh
    /\ Finish(w, Equal(Engine(w), Mock(Engine(w)), a, b, <<TestFrame(site)>>),
              [NoCall EXCEPT !.op = "Equal", !.site = site, !.a = a, !.b = b])

DoNoError(w, err, site) ==
    /\ w \in Engines /\ Fresh
    /\ Finish(w, NoError(Engine(w), Mock(Engine(w)), err, <<TestFrame(site)>>),
              [NoCall EXCEPT !.op = "NoError", !.site = site, !.err = err])

DoError(w, err, errs, site) ==
    /\ w \in Engines /\ Fresh
    /\ Finish(w, Error(Engine(w), Mock(Engine(w)), err, errs, <<TestFrame(site)>>),
              [NoCall EXCEPT !.op = "Error", !.site = site, !.err = err, !.errs = errs])

DoErrorAs(w, err, target, site) ==
    /\ w \in Engines /\ Fresh
    /\ LET out == ErrorAs(Engine(w), Mock(Engine(w)), err, target, <<TestFrame(site)>>)
       IN  Finish(w, out,
                  [NoCall EXCEPT !.op = "ErrorAs", !.site = site, !.err = err,
                       !.target = target,
                       !.assigned = IF out.panic = "" /\ Engine(w).t # NilT
                                    THEN ErrorsAs(err, target) ELSE NilErr])

DoTrue(w, expression, site) ==
    /\ w \in Engines /\ Fresh
    /\ expression => CanHold(site)
    /\ Finish(w, True(Engine(w), Mock(Engine(w)), expression, <<TestFrame(site)>>),
              [NoCall EXCEPT !.op = "True", !.site = site, !.expression = expression])

DoPanic(w, f, r, rt, vals, site) ==
    /\ w \in Engines /\ Fresh
    /\ r \in Recovered(f)
    /\ f.kind = "return" => rt = 1
    /\ Finish(w, Panic(Engine(w), Mock(Engine(w)), f, r, rt, vals, <<TestFrame(site)>>),
              [NoCall EXCEPT !.op = "Panic", !.site = site, !.f = f, !.r = r,
                   !.rt = IF f.kind = "return" THEN 0 ELSE rt, !.vals = vals,
                   !.invoked = IF Engine(w).t = NilT THEN 0 ELSE 1])

Next ==
    \/ \E t \in RootTs, file \in NewCallers : New(t, file)
    \/ \E w \in {"root", "child"}, t \in ChildTs : ChildNew(w, t)
    \/ NewMock
    \/ \E w \in {"root", "child"}, a \in EqualValues, b \in EqualValues,
          site \in Sites("Equal") : DoEqual(w, a, b, site)
    \/ \E w \in {"root", "child"}, err \in NoErrInputs,
          site \in Sites("NoError") : DoNoError(w, err, site)
    \/ \E w \in {"root", "child"}, err \in ErrInputs, errs \in ErrLists,
          site \in Sites("Error") : DoError(w, err, errs, site)
    \/ \E w \in {"root", "child"}, err \in AsInputs, target \in Targets,
          site \in Sites("ErrorAs") : DoErrorAs(w, err, target, site)
    \/ \E w \in {"root", "child"}, expression \in BOOLEAN,
          site \in Sites("True") : DoTrue(w, expression, site)
    \/ \E w \in {"root", "child"}, site \in Sites("Panic") :
          \E f \in PanicFuncs(site), r \in {NilV, StrSingle, PanicNilError},
             rt \in 1..MaxRuntimeFrames, vals \in ValLists :
                DoPanic(w, f, r, rt, vals, site)

Spec == Init /\ [][Next]_vars

(***************************************************************************)
(* The reporter operations of an engine, as the tests call them:           *)
(* assert.New(m).Fail(), .FailNow(), .Helper()                             *)
(***************************************************************************)
\* mutant: FailNow handed on as Fail
ForwardAsFail(m, fn) ==
    CASE fn = "Fail" -> Fail(m)
      [] fn = "FailNow" -> Fail(m)
      [] fn = "Helper" -> Helper(m)

\* the engine hands the call on to its reporter
Forward(m, fn) ==
    CASE fn = "Fail" -> Fail(m)
      [] fn = "FailNow" -> FailNow(m)
      [] fn = "Helper" -> Helper(m)

DoForward(w, fn) ==
    /\ w \in Engines /\ Fresh
    /\ Engine(w).t # NilT
    /\ Finish(w, Done(Forward(Mock(Engine(w)), fn)), [NoCall EXCEPT !.op = fn])

ExportNext ==
    \/ Next
    \/ \E w \in {"root", "child"}, fn \in ForwardOps : DoForward(w, fn)

ExportSpec == Init /\ [][ExportNext]_vars

TypeOK ==
    /\ \A r \in Reporters : reporters[r].state \in {"pass", "fail", "failNow"}
    /\ Len(heap) <= 2 * MaxLoads

(***************************************************************************)
(* A test unit: func TestX(t *testing.T) { is := is.New(t); ... }, the     *)
(* statements of its body run one after another on the engine made for t.  *)
(* t is the mock, whose FailNow returns, or a testing.T, whose FailNow     *)
(* ends the unit.                                                          *)
(***************************************************************************)
MaxProg == 2
MaxUnitLoads == 2

\* an assertion statement written on a line of a_test.go
Stmt(op, line) == [NoCall EXCEPT !.op = op, !.site = Site("/p/a_test.go", line)]

UnitStmts ==
    { [Stmt("Equal", 1) EXCEPT !.a = Int1, !.b = Int1],
      [Stmt("Equal", 2) EXCEPT !.a = Int1, !.b = Int2],
      [Stmt("NoError", 4) EXCEPT !.err = NilErr],
      [Stmt("NoError", 5) EXCEPT !.err = "err1"],
      [Stmt("Error", 7) EXCEPT !.err = NilErr],
      [Stmt("ErrorAs", 9) EXCEPT !.err = "err1", !.target = QueryTarget],
      [Stmt("True", 10) EXCEPT !.expression = FALSE],
      [Stmt("Panic", 29) EXCEPT !.f = Returns(Site("/p/a_test.go", 29)), !.invoked = 1] }

Progs == UNION {[1..n -> UnitStmts] : n \in 1..MaxProg}

\* the assertion call of statement c, made on engine e with reporter m
Run(e, m, c) ==
    LET stk == <<TestFrame(c.site)>>
    IN  CASE c.op = "Equal" -> Equal(e, m, c.a, c.b, stk)
          [] c.op = "NoError" -> NoError(e, m, c.err, stk)
          [] c.op = "Error" -> Error(e, m, c.err, c.errs, stk)
          [] c.op = "ErrorAs" -> ErrorAs(e, m, c.err, c.target, stk)
          [] c.op = "True" -> True(e, m, c.expression, stk)
          [] c.op = "Panic" -> Panic(e, m, c.f, c.r, c.rt, c.vals, stk)

\* the number of FailNow calls a reporter received
FailNows(m) == Len(SelectSeq(m.calls, LAMBDA c : c = "FailNow"))

\* the test runner starts the unit: t is fresh and the body makes its engine
\* what a call did: the calls it made on the reporter, the message it
\* logged, the fail path it took, the value it panicked with
Did(m, out) ==
    LET calls == SubSeq(out.m.calls, Len(m.calls) + 1, Len(out.m.calls))
    IN  [calls |-> calls,
         msg |-> IF \E i \in 1..Len(calls) : calls[i] = "Log" THEN out.m.msg ELSE "",
         state |-> IF \E i \in 1..Len(calls) : calls[i] = "FailNow" THEN "failNow"
                   ELSE IF \E i \in 1..Len(calls) : calls[i] = "Fail" THEN "fail"
                   ELSE "pass",
         panic |-> out.panic]

UnitStart(prog, aborting) ==
    /\ root # NoEngine
    /\ unit.status = "none"
    /\ child' = IsNew(root, "m2")
    /\ reporters' = [r \in Reporters |-> ZeroMock]
    /\ unit' = [status |-> "running", aborting |-> aborting, prog |-> prog, ran |-> <<>>,
                did |-> <<>>]
    /\ last' = [NoCall EXCEPT !.op = "ChildNew", !.eng = "root", !.t = "m2"]
    /\ UNCHANGED <<root, heap, par>>

\* the next statement of the unit runs
UnitStep ==
    /\ unit.status = "running"
    /\ LET c == unit.prog[Len(unit.ran) + 1]
           m == reporters[child.t]
           out == Run(child, m, c)
       IN  /\ reporters' = [reporters EXCEPT ![child.t] = out.m]
           /\ last' = [c EXCEPT !.eng = "child", !.t = child.t, !.panic = out.panic]
           /\ unit' = [unit EXCEPT
                          !.ran = Append(@, c),
                          !.did = Append(@, Did(m, out)),
                          !.status = IF out.panic # "" THEN "panicked"
                                     ELSE IF unit.aborting /\ FailNows(out.m) > FailNows(m)
                                     THEN "aborted"
                                     ELSE IF Len(unit.ran) + 1 = Len(unit.prog)
                                     THEN "done" ELSE "running"]
    /\ UNCHANGED <<root, child, heap, par>>

\* a test file makes its package-level engine, var is = assert.New(nil),
\* before or after the unit
UnitNew(file) ==
    /\ Len(heap) < 2 * MaxUnitLoads
    /\ unit.status # "running"
    /\ NewEngine(NilT, file)

UnitNext ==
    \/ \E file \in NewCallers : UnitNew(file)
    \/ \E prog \in Progs, aborting \in BOOLEAN : UnitStart(prog, aborting)
    \/ UnitStep

UnitSpec == Init /\ [][UnitNext]_vars

(***************************************************************************)
(* Units whose Panic calls are given functions that assert themselves.     *)
(***************************************************************************)
ExitStmts ==
    { [Stmt("Equal", 1) EXCEPT !.a = Int1, !.b = Int1],
      [Stmt("NoError", 5) EXCEPT !.err = "err1"],
      [Stmt("Panic", 29) EXCEPT !.f = Returns(Site("/p/a_test.go", 29)), !.invoked = 1],
      [Stmt("Panic", 29) EXCEPT !.f = Exits(Site("/p/a_test.go", 5)), !.invoked = 1],
      [Stmt("Panic", 28) EXCEPT !.f = Exits(Site("/p/a_test.go", 5)), !.invoked = 1] }

ExitProgs == UNION {[1..n -> ExitStmts] : n \in 1..MaxProg}

\* only the FailNow of a reporter that ends the unit ends f
ExitNext ==
    \/ \E file \in NewCallers : UnitNew(file)
    \/ \E prog \in ExitProgs, aborting \in BOOLEAN :
          /\ (\E i \in 1..Len(prog) : prog[i].f.kind = "goexit") => aborting
          /\ UnitStart(prog, aborting)
    \/ UnitStep

ExitSpec == Init /\ [][ExitNext]_vars

(***************************************************************************)
(* Parallel subtests: t.Run with t.Parallel(), each subtest with a mock of *)
(* its own and an engine made from the package-level one by is.New(m), as  *)
(* in the tests of the package. A call reads the shared tables in one      *)
(* step and has reported to its mock in a later one.                       *)
(***************************************************************************)
MaxParProg == 1

Workers == Reporters

ParStmts ==
    { [Stmt("NoError", 4) EXCEPT !.err = NilErr],
      [Stmt("NoError", 5) EXCEPT !.err = "err1"],
      [Stmt("NoError", 5) EXCEPT !.err = "err1", !.site = Site("/p/b_test.go", 5)],
      [Stmt("Equal", 3) EXCEPT !.a = Int1, !.b = Int2],
      [Stmt("True", 10) EXCEPT !.expression = FALSE],
      [Stmt("True", 10) EXCEPT !.expression = FALSE, !.site = Site("/p/b_test.go", 10)] }

ParProgs == UNION {[1..n -> ParStmts] : n \in 1..MaxParProg}

\* the reporter after the calls of prog, made in order with nothing between
RECURSIVE RunSeq(_, _, _)
RunSeq(e, m, prog) ==
    IF prog = <<>> THEN m ELSE RunSeq(e, Run(e, m, Head(prog)).m, Tail(prog))

\* the reporter of a subtest that runs alone, after each of its calls
AloneRuns(e, prog) == [k \in 1..Len(prog) |-> RunSeq(e, ZeroMock, SubSeq(prog, 1, k))]

\* mutant: a lookup removes the tables of the file it has read
LookupEvicts(h, e, c) ==
    [h EXCEPT ![e.comments] = [p \in DOMAIN @ \ {c.site.file} |-> @[p]],
              ![e.arguments] = [p \in DOMAIN @ \ {c.site.file} |-> @[p]]]

\* what the lookups of a call leave of the tables: they index the maps
LookupEffect(h, e, c) == h

\* the subtests start: each makes its mock and its engine
ParStart(progs) ==
    /\ root # NoEngine
    /\ par.status = "none"
    /\ reporters' = [r \in Reporters |-> ZeroMock]
    /\ par' = [status |-> "running",
               w |-> [w \in Workers |->
                        [eng |-> IsNew(root, w), prog |-> progs[w], done |-> 0,
                         busy |-> FALSE, pending |-> Done(ZeroMock),
                         alone |-> AloneRuns(IsNew(root, w), progs[w])]]]
    /\ UNCHANGED <<root, child, heap, last, unit>>

\* a subtest enters its next call: the call is evaluated and reads the tables
ParCall(w) ==
    /\ par.status = "running"
    /\ ~par.w[w].busy
    /\ par.w[w].done < Len(par.w[w].prog)
    /\ LET c == par.w[w].prog[par.w[w].done + 1]
           e == par.w[w].eng
       IN  /\ par' = [par EXCEPT !.w[w].busy = TRUE,
                                 !.w[w].pending = Run(e, reporters[w], c)]
           /\ heap' = LookupEffect(heap, e, c)
    /\ UNCHANGED <<reporters, root, child, last, unit>>

\* the call returns: what it made of its mock is there
ParReturn(w) ==
    /\ par.status = "running"
    /\ par.w[w].busy
    /\ reporters' = [reporters EXCEPT ![w] = par.w[w].pending.m]
    /\ par' = [par EXCEPT !.w[w].busy = FALSE, !.w[w].done = @ + 1]
    /\ UNCHANGED <<root, child, heap, last, unit>>

\* the package-level engine, var is = assert.New(nil), made once
ParNew(file) ==
    /\ root = NoEngine
    /\ NewEngine(NilT, file)

ParNext ==
    \/ \E file \in NewCallers : ParNew(file)
    \/ \E progs \in [Workers -> ParProgs] : ParStart(progs)
    \/ \E w \in Workers : ParCall(w)
    \/ \E w \in Workers : ParReturn(w)

ParSpec == Init /\ [][ParNext]_vars

(***************************************************************************)
(* Properties                                                              *)
(***************************************************************************)
Range(seq) == {seq[i] : i \in 1..Len(seq)}

\* the reporter saw no report at all
Silent(m) == Range(m.calls) \subseteq {"Helper"} /\ m.state = "pass" /\ m.msg = ""

\* the calls of one report, after the n Helper calls that precede Log
ReportCalls(n, failFunc) == [i \in 1..n |-> "Helper"] \o <<"Log", failFunc>>

\* the logged message is text, alone or followed by an appended comment
Says(m, text) == m.msg = text \/ HasPrefix(m.msg, text \o " // ")

\* the last operation was the assertion op made on an engine with a reporter
Asserted(op) == last.op = op /\ last.t \in Reporters

\* the last assertion returned without a report
Passed == last.panic = "" /\ \A r \in Reporters : Silent(reporters[r])

\* C1: Equal on deep-equal operands (nil and nil included) makes no Log, Fail
\* or FailNow call: every reporter stays passed with an empty message.
C1_EqualPasses ==
    (last.op = "Equal" /\ last.a = last.b) => \A r \in Reporters : Silent(reporters[r])

C1_Witness ==
    /\ Asserted("Equal") /\ last.a = NilV /\ last.b = NilV
    /\ reporters[last.t].helperCount = 1

\* the text Equal is to report for operands that differ
TypedForm(v) == IF v = NilV THEN "<nil>" ELSE v.typ \o "(" \o v.rep \o ")"

EqualMessage(a, b) ==
    IF a = NilV \/ b = NilV THEN "is.Equal: " \o TypedForm(a) \o " != " \o TypedForm(b)
    ELSE IF a.typ = b.typ THEN "is.Equal: " \o a.rep \o " != " \o b.rep
    ELSE "is.Equal: " \o TypedForm(a) \o " != " \o TypedForm(b)

\* C2: Equal on operands that are not deep-equal reports exactly one failure
\* through Fail, with the typed forms when an operand is nil, the raw values
\* when the dynamic types are identical, the typed forms otherwise.
C2_EqualFails ==
    (Asserted("Equal") /\ last.a # last.b) =>
        LET m == reporters[last.t]
        IN  /\ m.calls = ReportCalls(2, "Fail")
            /\ m.state = "fail"
            /\ Says(m, EqualMessage(last.a, last.b))

C2_Witness ==
    /\ Asserted("Equal") /\ last.a = Int1 /\ last.b = Int32_1
    /\ reporters[last.t].msg = "is.Equal: int(1) != int32(1)"

\* the source line of the last assertion and the call written on it
SiteLine == FS[last.site.file].lines[last.site.line]
SiteCall == SiteLine.calls[1]

\* the engine of the last assertion has the tables of the file it was called from
SiteLoaded == last.site.file \in DOMAIN heap[Engine(last.eng).comments]

\* the last assertion logged a message
Reported == last.t \in Reporters /\ "Log" \in Range(reporters[last.t].calls)

\* C3: the message of every reported failure ends with " // " and the trimmed
\* text of the comment on the source line of the assertion call, and carries
\* no comment when that line has none.
C3_CommentAppended ==
    (last.op \in AssertOps /\ Reported /\ SiteLoaded) =>
        LET m == reporters[last.t]
            groups == SiteLine.comments
        IN  IF Len(groups) > 0
            THEN \E i \in 1..Len(groups) :
                    HasSuffix(m.msg, " // " \o TrimSpace(GroupText(groups[i])))
            ELSE ~Contains(m.msg, "//")

\* C4: True on a true expression reports nothing; a failing one-line True call
\* of a loaded file, the only call of its line whose text contains "True",
\* reports through Fail the argument text exactly as written.
C4_TrueText ==
    /\ (Asserted("True") /\ last.expression) => Passed
    /\ (Asserted("True") /\ ~last.expression /\ SiteLoaded
          /\ Len(SiteCall.args) = 1 /\ Len(Recorded(SiteLine, "True")) = 1) =>
        LET m == reporters[last.t]
        IN  /\ m.calls = ReportCalls(2, "Fail")
            /\ Says(m, "is.True: " \o Written(SiteCall))

\* the code of the lines of a call, one blank between two lines
RECURSIVE CodeOfLines(_)
CodeOfLines(args) ==
    IF Len(args) = 0 THEN ""
    ELSE IF Len(args) = 1 THEN PrintToks(args[1].toks, "")
    ELSE PrintToks(args[1].toks, "") \o " " \o CodeOfLines(Tail(args))

\* C5: a failing True call that spans several lines reports the code of all
\* its lines joined by single blanks, without newline or tab, followed by the
\* comment of its first line only.
C5_MultiLine ==
    (Asserted("True") /\ ~last.expression /\ SiteLoaded /\ Len(SiteCall.args) > 1) =>
        LET m == reporters[last.t]
            text == "is.True: " \o CodeOfLines(SiteCall.args)
            groups == SiteLine.comments
        IN  /\ ~Contains(m.msg, "\n") /\ ~Contains(m.msg, "\t")
            /\ IF Len(groups) > 0
               THEN m.msg = text \o " // " \o TrimSpace(GroupText(Last(groups)))
               ELSE m.msg = text

\* C6: NoError reports nothing for a nil error and, for every other error,
\* exactly one failure through FailNow with the text of the error.
C6_NoError ==
    Asserted("NoError") =>
        LET m == reporters[last.t]
        IN  IF last.err = NilErr THEN Passed
            ELSE /\ m.calls = ReportCalls(2, "FailNow")
                 /\ m.state = "failNow"
                 /\ Says(m, "is.NoError: " \o ErrorText(last.err))

C6_Witness ==
    /\ Asserted("NoError") /\ last.err = "err1"
    /\ reporters[last.t].state = "failNow"
    /\ reporters[last.t].msg = "is.NoError: error 1 // shouldn't be error"

\* an error and the errors it wraps
RECURSIVE ChainOf(_)
ChainOf(e) == IF e = NilErr THEN {} ELSE {e} \cup ChainOf(Unwrap(e))

\* C7: Error passes exactly when err is not nil and either no expected error
\* is given or one of them, at any position, is in the chain of err.
C7_ErrorPasses ==
    Asserted("Error") =>
        (Passed <=> /\ last.err # NilErr
                    /\ \/ last.errs = <<>>
                       \/ \E i \in 1..Len(last.errs) : last.errs[i] \in ChainOf(last.err))

C7_Witness ==
    /\ Asserted("Error") /\ last.err = "errWrap" /\ last.errs = <<"err2", "err1">>
    /\ Passed

ErrName(e) == IF e = NilErr THEN "<nil>" ELSE ErrorText(e)

\* C8: every failure of Error goes through FailNow: "<nil>" for a nil err,
\* "<err> != <expected>" for one expected error that does not match, the
\* generic text for two or more.
C8_ErrorFails ==
    (Asserted("Error") /\ ~(/\ last.err # NilErr
                            /\ \/ last.errs = <<>>
                               \/ \E i \in 1..Len(last.errs) :
                                     last.errs[i] \in ChainOf(last.err))) =>
        LET m == reporters[last.t]
        IN  /\ m.calls = ReportCalls(2, "FailNow")
            /\ m.state = "failNow"
            /\ Says(m, IF last.err = NilErr THEN "is.Error: <nil>"
                       ELSE IF Len(last.errs) = 1
                       THEN "is.Error: " \o ErrName(last.err) \o " != " \o ErrName(last.errs[1])
                       ELSE "is.Error: " \o ErrName(last.err)
                                \o " != one of the expected errors")

C10_Panic ==
    Asserted("Panic") =>
        LET m == reporters[last.t]
            matches == \/ last.vals = <<>>
                       \/ \E i \in 1..Len(last.vals) : last.vals[i] = last.r
        IN  /\ last.invoked = 1
            /\ last.panic = ""
            /\ Passed <=> (last.f.kind = "panic" /\ matches)
            /\ ~Passed =>
                 /\ m.calls = ReportCalls(3, "Fail")
                 /\ m.state = "fail"
                 /\ Says(m, IF last.f.kind = "return"
                            THEN "is.Panic: the function is not panic"
                            ELSE IF Len(last.vals) = 1
                            THEN "is.Panic: " \o last.r.rep \o " != " \o last.vals[1].rep
                            ELSE "is.Panic: " \o last.r.rep
                                     \o " != one of the expected panic values")

\* the number of Helper calls a reporting call of the method makes
HelperCalls(op) == IF op = "Panic" THEN 3 ELSE 2

\* C11: a call of Equal, NoError, Error, ErrorAs or True that reports a
\* failure has called Helper exactly 2 times, a reporting call of Panic
\* exactly 3 times, whatever the operands, the call site and the branch taken.
C11_HelperCount ==
    (last.op \in AssertOps /\ Reported) =>
        LET m == reporters[last.t]
        IN  /\ m.helperCount = HelperCalls(last.op)
            /\ Len(SelectSeq(m.calls, LAMBDA c : c = "Helper")) = HelperCalls(last.op)

C11_Witness ==
    /\ Asserted("Panic") /\ Reported /\ last.f.kind = "panic"
    /\ reporters[last.t].helperCount = 3

\* the calls a reporter may have received from one assertion call: Helper
\* calls alone, or Helper calls, then one Log, then one fail call
PassShape(calls) == Len(calls) > 0 /\ Range(calls) = {"Helper"}

FailShape(calls) ==
    /\ Len(calls) >= 3
    /\ \A i \in 1..(Len(calls) - 2) : calls[i] = "Helper"
    /\ calls[Len(calls) - 1] = "Log"
    /\ calls[Len(calls)] \in {"Fail", "FailNow"}

\* C12: on an engine with a reporter, Helper is the first call every
\* assertion makes on it; the reporter then has received either Helper calls
\* alone (the call passed, or panicked) or Helper calls followed by exactly
\* one Log and then exactly one Fail or FailNow, also though the FailNow of
\* the reporter returned; no other reporter is called.
C12_CallOrder ==
    (last.op \in AssertOps /\ last.t \in Reporters) =>
        LET m == reporters[last.t]
        IN  /\ m.calls[1] = "Helper"
            /\ PassShape(m.calls) \/ FailShape(m.calls)
            /\ PassShape(m.calls) <=> m.state = "pass"
            /\ \A r \in Reporters \ {last.t} : reporters[r] = ZeroMock

C12_Witness ==
    /\ Asserted("Error") /\ last.err = NilErr
    /\ reporters[last.t].calls = <<"Helper", "Helper", "Log", "FailNow">>
    /\ reporters[last.t].state = "failNow"

\* the call c is to report a failure (the calls that panic instead, Error
\* with a single nil expected error and ErrorAs with a nil target, left out)
Fails(c) ==
    \/ c.op = "Equal" /\ c.a # c.b
    \/ c.op = "NoError" /\ c.err # NilErr
    \/ c.op = "Error" /\ c.err = NilErr
    \/ c.op = "Error" /\ c.err # NilErr /\ c.errs # <<>> /\ c.errs # <<NilErr>>
          /\ \A i \in 1..Len(c.errs) : c.errs[i] \notin ChainOf(c.err)
    \/ c.op = "ErrorAs" /\ c.target # NilTarget
          /\ \A x \in ChainOf(c.err) : ~AssignableTo(x, c.target.elem)
    \/ c.op = "True" /\ ~c.expression
    \/ c.op = "Panic" /\ c.f.kind = "return"
    \/ c.op = "Panic" /\ c.f.kind = "panic" /\ c.r # NilV /\ c.vals # <<>>
          /\ \A i \in 1..Len(c.vals) : c.vals[i] # c.r

Aborts(c) == Fails(c) /\ c.op \in {"NoError", "Error", "ErrorAs"}

\* the number of reports a reporter received
Logs(m) == Len(SelectSeq(m.calls, LAMBDA c : c = "Log"))

UnitWentOn ==
    /\ unit.aborting /\ unit.status = "done" /\ Len(unit.ran) = 2
    /\ unit.ran[1].op = "Equal" /\ Fails(unit.ran[1]) /\ unit.ran[2].op = "True"
    /\ Logs(reporters[child.t]) = 2

\* is.New(t) on an engine, a nil-reporter one included, parses nothing
\* and changes neither its parent nor a reporter; the child has the reporter
\* t and the very tables of its parent; every failure of a call on the child
\* is reported to t and no other reporter is called; and the report carries
\* the comment the shared tables hold for the call site.
C14_ChildState ==
    /\ last.op = "ChildNew" =>
          /\ child.t = last.t
          /\ child.comments = Engine(last.eng).comments
          /\ child.arguments = Engine(last.eng).arguments
    /\ (last.op \in AssertOps /\ last.eng = "child") =>
          /\ last.t = child.t
          /\ \A r \in Reporters \ {child.t} : reporters[r] = ZeroMock
          /\ Fails(last) => Reported
    /\ (last.op \in AssertOps \ {"Panic"} /\ last.eng = "child" /\ Reported /\ SiteLoaded) =>
          LET groups == SiteLine.comments
          IN  IF Len(groups) > 0
              THEN HasSuffix(reporters[child.t].msg,
                             " // " \o TrimSpace(GroupText(Last(groups))))
              ELSE ~Contains(reporters[child.t].msg, "//")

C14_ChildStep ==
    (last'.op = "ChildNew" /\ last' # last) =>
        /\ heap' = heap /\ root' = root /\ reporters' = reporters
        /\ \E w \in Engines : /\ child'.comments = Engine(w).comments
                               /\ child'.arguments = Engine(w).arguments

\* C14: the child engine made by is.New(t) reports to t alone and shares the
\* tables of its parent, which making it neither parses nor changes.
C14_ChildNew == []C14_ChildState /\ [][C14_ChildStep]_vars

C14_Witness ==
    /\ root.t = NilT /\ child.t = "m2" /\ child.comments = root.comments
    /\ last.op = "NoError" /\ last.eng = "child"
    /\ reporters["m2"].msg = "is.NoError: error 1 // shouldn't be error"

\* the tables an engine refers to exist
TablesOf(e) == e # NoEngine => e.comments \in 1..Len(heap) /\ e.arguments \in 1..Len(heap)

\* one step keeps every table as it is; tables are added by New alone, which
\* makes them for its engine; no other step gives an engine other tables
C15_Step ==
    /\ Len(heap') >= Len(heap)
    /\ \A i \in 1..Len(heap) : heap'[i] = heap[i]
    /\ heap' # heap =>
          /\ last'.op = "New"
          /\ Len(heap') = Len(heap) + 2
          /\ root'.comments = Len(heap) + 1 /\ root'.arguments = Len(heap) + 2
          /\ child' = child
    /\ root' # root => heap' # heap
    /\ (child' # child) => \E w \in Engines : /\ child'.comments = Engine(w).comments
                                                /\ child'.arguments = Engine(w).arguments

\* C15: through constructions, child creations and passing and failing
\* assertions, the tables of an engine are filled once, by the New that made
\* them, and no entry of a filled table is changed or removed afterwards.
C15_PopulatedOnce == []TablesOf(root) /\ []TablesOf(child) /\ [][C15_Step]_vars

C15_Witness ==
    /\ Len(heap) = 4 /\ child.comments = 1 /\ root.comments = 3
    /\ unit.status = "done" /\ Len(unit.ran) = 2
    /\ Logs(reporters[child.t]) >= 1
    /\ "/p/a_test.go" \in DOMAIN heap[1]

\* the test files that lie directly in a directory
TestFilesIn(dir) ==
    {p \in Paths : ~FS[p].isDir /\ FS[p].dir = dir /\ HasSuffix(FS[p].name, "_test.go")}

\* the files that are keys of the two tables of an engine
Keys(e) == DOMAIN heap[e.comments] \cup DOMAIN heap[e.arguments]

C16_State ==
    /\ (last.op = "New" /\ last.panic = "") =>
          /\ DOMAIN heap[root.comments] = TestFilesIn(Dir(last.site.file))
          /\ DOMAIN heap[root.arguments] = TestFilesIn(Dir(last.site.file))
          /\ TestFilesIn(Dir(last.site.file)) # {}
    /\ (last.op \in AssertOps /\ Reported /\ ~SiteLoaded) =>
          /\ ~Contains(reporters[last.t].msg, "//")
          /\ last.op = "True" => reporters[last.t].msg = "is.True: "

C16_Step == last'.op \in AssertOps => heap' = heap

FullTables ==
    [d \in {Dir(file) : file \in NewCallers} |->
        [comments |-> LoadedComments(d), arguments |-> LoadedArguments(d)]]

\* a test file of the directory is rejected by the parser
ParseFails(dir) == \E p \in TestFilesIn(dir) : ~FS[p].ok

\* every engine there is has the complete tables of a directory all of whose
\* test files parse; a New in a directory with a rejected file has panicked
C17_State ==
    /\ \A w \in Engines :
          \E d \in DOMAIN FullTables :
             /\ ~ParseFails(d)
             /\ heap[Engine(w).comments] = FullTables[d].comments
             /\ heap[Engine(w).arguments] = FullTables[d].arguments
    /\ (last.op = "New" /\ ParseFails(Dir(last.site.file))) => last.panic # ""

\* a New that panics makes no engine and no table and calls no reporter
C17_Step ==
    (last'.op = "New" /\ last'.panic # "") =>
        /\ heap' = heap /\ root' = root /\ child' = child /\ reporters' = reporters

\* C17: when the parser rejects a test file while New builds the tables, New
\* panics: no engine is returned, with partial tables or without the file's
\* annotations, and nothing is reported through a reporter.
C17_ParsePanics == []C17_State /\ [][C17_Step]_vars

C17_Witness ==
    /\ last.op = "New" /\ last.panic # "" /\ last.site.file = "/q/a_test.go"
    /\ root # NoEngine /\ Keys(root) = {"/p/a_test.go", "/p/b_test.go"}

\* C18: every assertion method called on an engine made with a nil reporter
\* panics with the value "is: T is nil", whether its operands pass or fail,
\* and no reporter is called.
C18_NilReporter ==
    (last.op \in AssertOps /\ last.t = NilT) =>
        /\ last.panic = "is: T is nil"
        /\ \A r \in Reporters : reporters[r] = ZeroMock

SiteComment == MapGet2(heap[Engine(last.eng).comments], last.site.file, last.site.line)
SiteArguments == MapGet2(heap[Engine(last.eng).arguments], last.site.file, last.site.line)

\* C20: a failing Equal, NoError, Error, ErrorAs or True looks its comment
\* up, and True its argument text, under the file and line of the frame that
\* called the method: the message carries what the tables hold for that
\* position and nothing held for a frame of the library or another line.
C20_CallSite ==
    (last.op \in AssertOps \ {"Panic"} /\ Reported) =>
        LET m == reporters[last.t]
        IN  /\ IF SiteComment # ""
               THEN HasSuffix(m.msg, " " \o SiteComment)
               ELSE ~Contains(m.msg, "//")
            /\ last.op = "True" =>
                  m.msg = "is.True: " \o SiteArguments
                            \o (IF SiteComment # "" THEN " " \o SiteComment ELSE "")

C20_Witness ==
    /\ Asserted("True") /\ last.site = Site("/p/a_test.go", 10)
    /\ SiteComment = "// false" /\ SiteArguments = "1 == 2"
    /\ reporters[last.t].msg = "is.True: 1 == 2 // false"

\* C21: every failing Panic call, f having returned or having panicked with a
\* value that matches no expected value, carries the comment of the source
\* line of the is.Panic call itself, and no comment when that line has none.
C21_PanicComment ==
    (Asserted("Panic") /\ Reported /\ SiteLoaded) =>
        LET m == reporters[last.t]
        IN  IF SiteComment # ""
            THEN HasSuffix(m.msg, " " \o SiteComment)
            ELSE ~Contains(m.msg, "//")

\* between its calls the mock of every subtest is what it is after the same
\* calls when the subtest runs alone
C22_State ==
    par.status = "running" =>
        \A w \in Workers :
            ~par.w[w].busy =>
                reporters[w] = (IF par.w[w].done = 0 THEN ZeroMock
                                ELSE par.w[w].alone[par.w[w].done])

\* no call of a subtest changes a table
C22_Step == par.status = "running" => heap' = heap

\* C22: engines made from one parent and used by parallel subtests, each with
\* its reporter, never write to the shared tables, and under every
\* interleaving each logs the message and reaches the state it reaches alone.
C22_Parallel == []C22_State /\ [][C22_Step]_vars

C22_Witness ==
    /\ par.status = "running"
    /\ par.w["m1"].done = 1 /\ par.w["m2"].busy
    /\ par.w["m1"].prog[1].site = Site("/p/a_test.go", 5)
    /\ par.w["m2"].prog[1].site = Site("/p/b_test.go", 5)
    /\ reporters["m1"].msg = "is.NoError: error 1 // shouldn't be error"
    /\ par.w["m2"].pending.m.msg = "is.NoError: error 1 // from b"
    /\ par.w["m1"].eng.comments = par.w["m2"].eng.comments


\* the comments and the True-arguments of the lines of every file that parses
AnnotationsOf ==
    [p \in {q \in Paths : ~FS[q].isDir /\ FS[q].ok} |->
        [comments |-> loadComment(p), arguments |-> loadArgument(p, "True")]]

\* the comment and the True-argument that the source of a file has at a line
OwnComment(c) == MapGet(AnnotationsOf[c.site.file].comments, c.site.line)
OwnArguments(c) == MapGet(AnnotationsOf[c.site.file].arguments, c.site.line)

\* the other loaded files whose entry for the same line number is another one
OtherFiles(e, c) ==
    {g \in DOMAIN heap[e.comments] \ {c.site.file} :
        \/ MapGet(AnnotationsOf[g].comments, c.site.line) # OwnComment(c)
        \/ MapGet(AnnotationsOf[g].arguments, c.site.line) # OwnArguments(c)}

\* C23: a failure at line L of a loaded file F is annotated with the comment
\* and the True-argument the source of F has at line L, and with no entry
\* that another loaded file G has for the same line number, in whatever order
\* the assertions of F and of G fail.
C23_KeyedByFile ==
    par.status = "running" =>
        \A w \in Workers :
            LET s == par.w[w]
            IN  (~s.busy /\ s.done > 0
                 /\ s.prog[s.done].site.file \in DOMAIN heap[s.eng.comments]) =>
                    LET c == s.prog[s.done]
                        tail == IF OwnComment(c) = "" THEN "" ELSE " " \o OwnComment(c)
                        msg == reporters[w].msg
                    IN  /\ (c.op = "NoError" /\ c.err # NilErr) =>
                               msg = "is.NoError: " \o ErrorText(c.err) \o tail
                        /\ c.op = "True" =>
                               msg = "is.True: " \o OwnArguments(c) \o tail
                        /\ (c.op = "True" \/ (c.op = "NoError" /\ c.err # NilErr)) =>
                               \A g \in OtherFiles(s.eng, c) :
                                   LET cm == MapGet(AnnotationsOf[g].comments, c.site.line)
                                       ar == MapGet(AnnotationsOf[g].arguments, c.site.line)
                                   IN  /\ (cm # "" /\ cm # OwnComment(c)) => ~HasSuffix(msg, cm)
                                       /\ (c.op = "True" /\ ar # OwnArguments(c)) =>
                                              ~HasPrefix(msg, "is.True: " \o ar \o " ")
                                              /\ msg # "is.True: " \o ar

\* the assertion of b_test.go has failed first, the one of a_test.go, at the
\* same line number, fails after it
C23_Witness ==
    /\ par.status = "running"
    /\ par.w["m2"].done = 1 /\ ~par.w["m2"].busy /\ par.w["m1"].busy
    /\ par.w["m2"].prog[1].site = Site("/p/b_test.go", 10)
    /\ par.w["m1"].prog[1].site = Site("/p/a_test.go", 10)
    /\ reporters["m2"].msg = "is.True: false"
    /\ par.w["m1"].pending.m.msg # "" /\ par.w["m1"].pending.m.msg # "is.True: false"
    /\ "/p/a_test.go" \in DOMAIN heap[par.w["m2"].eng.arguments]


\* two calls of a unit that are the same statement did the same
C24_State ==
    \A i, j \in 1..Len(unit.ran) :
        unit.ran[i] = unit.ran[j] => unit.did[i] = unit.did[j]

\* a call of a unit leaves every table as it is
C24_Step == Len(unit'.ran) > Len(unit.ran) => heap' = heap

C25_ParsedOnce ==
    (last.op = "New" /\ last.panic = "") =>
        /\ DOMAIN last.parses = Keys(root)
        /\ \A p \in DOMAIN last.parses :
              /\ Len(last.parses[p]) = 1
              /\ \A i \in 1..Len(last.parses[p]) : last.parses[p][i].path = p


\* C26: after New has returned, a file is a key of the comment table, and of
\* the argument table, exactly when its name ends in "_test.go" and it lies
\* directly in the directory of the file that called New; the two tables of
\* every engine always have the same keys.
C26_Keys ==
    /\ (last.op = "New" /\ last.panic = "") =>
          \A p \in Paths :
             LET isKey == /\ ~FS[p].isDir
                          /\ FS[p].dir = FS[last.site.file].dir
                          /\ HasSuffix(FS[p].name, "_test.go")
             IN  /\ p \in DOMAIN heap[root.comments] <=> isKey
                 /\ p \in DOMAIN heap[root.arguments] <=> isKey
    /\ \A w \in Engines :
          DOMAIN heap[Engine(w).comments] = DOMAIN heap[Engine(w).arguments]

C26_Witness ==
    /\ last.op = "New" /\ last.panic = "" /\ last.site.file = "/p/a_test.go"
    /\ DOMAIN heap[root.comments] = {"/p/a_test.go", "/p/b_test.go"}
    /\ FS["/p/util.go"].dir = "/p" /\ FS["/p/sub/c_test.go"].dir = "/p/sub"


\* C27: a failing True call whose line holds a nested call whose text
\* contains "True" too, as is.True(isTrue(x)), reports the whole argument of
\* the is.True call: the entry kept for the line is that of the is.True call.
C27_NestedCall ==
    (Asserted("True") /\ ~last.expression /\ SiteLoaded
       /\ Len(Recorded(SiteLine, "True")) > 1 /\ SiteCall.fun = "is.True") =>
        /\ SiteArguments = Written(SiteCall)
        /\ Says(reporters[last.t], "is.True: " \o Written(SiteCall))


\* C28: for every non-nil err and every list of expected errors, a list with
\* a nil entry included, Error returns without a panic and has either passed
\* or reported exactly one failure.
C28_ErrorNoPanic ==
    (Asserted("Error") /\ last.err # NilErr) =>
        /\ last.panic = ""
        /\ \/ Passed
           \/ /\ Logs(reporters[last.t]) = 1
              /\ FailNows(reporters[last.t]) = 1
              /\ reporters[last.t].state = "failNow"


\* C29: Panic reports "the function is not panic" only if f returned: when f
\* ended because a failing NoError inside it ended the unit through FailNow,
\* the Panic call logs nothing of its own and fails the unit no second time.
C29_ExitInsideF ==
    \A i \in 1..Len(unit.ran) :
        unit.ran[i].op = "Panic" =>
            /\ Contains(unit.did[i].msg, "the function is not panic") =>
                   unit.ran[i].f.kind = "return"
            /\ unit.ran[i].f.kind = "goexit" =>
                   /\ Len(SelectSeq(unit.did[i].calls, LAMBDA c : c = "Log")) = 1
                   /\ Len(SelectSeq(unit.did[i].calls,
                                     LAMBDA c : c \in {"Fail", "FailNow"})) = 1
                   /\ unit.status = "aborted"


====
